---- MODULE Spec2Model ----
(***************************************************************************)
(* A model of the TCS34725 register-level driver (src/tcs34725.py).        *)
(*                                                                         *)
(* State: the chip-side registers reached over the I2C bus, the two        *)
(* Python attributes of the driver object, a record of the last call made  *)
(* on the driver (its arguments, the exception it raised, if any, its      *)
(* return value and the bus transactions it issued, in order) and the      *)
(* number of calls made since construction.                                *)
(*                                                                         *)
(* Quantities that the source writes as floats with one decimal            *)
(* (milliseconds, glass attenuation) are carried in tenths: 2.4 ms is 24,  *)
(* 700 ms is 7000, a glass attenuation of 1.0 is 10.                       *)
(*                                                                         *)
(* Left out: the LED pin (ledOn, ledOff), the status getter and            *)
(* wait_time_seconds, which scales wait_time_ms by 1000.                   *)
(***************************************************************************)
EXTENDS Integers, Sequences, FiniteSets, TLC

VARIABLES regs, glassAttenuation, glass_attenuation, call, ncalls

vars == <<regs, glassAttenuation, glass_attenuation, call, ncalls>>

(***************************************************************************)
(* Register map and constants                                              *)
(***************************************************************************)

\* REGISTERS: command name -> <<register address, RW capability>>
REGISTERS ==
    [ ENABLE  |-> <<0, 3>>,
      ATIME   |-> <<1, 3>>,
      WTIME   |-> <<3, 3>>,
      AILTL   |-> <<4, 3>>,
      AILTH   |-> <<5, 3>>,
      AIHTL   |-> <<6, 3>>,
      AIHTH   |-> <<7, 3>>,
      PERS    |-> <<12, 3>>,
      CONFIG  |-> <<13, 3>>,
      CONTROL |-> <<15, 3>>,
      ID      |-> <<18, 2>>,
      STATUS  |-> <<19, 2>>,
      CDATAL  |-> <<20, 2>>,
      CDATAH  |-> <<21, 2>>,
      RDATAL  |-> <<22, 2>>,
      RDATAH  |-> <<23, 2>>,
      GDATAL  |-> <<24, 2>>,
      GDATAH  |-> <<25, 2>>,
      BDATAL  |-> <<26, 2>>,
      BDATAH  |-> <<27, 2>>,
      CLRINT  |-> <<6, 3>> ]

ENABLE_AEN == 2

ENABLE_PON == 1

RESET_ATIME == 255

RESET_WTIME == 255

RESET_VALUE == 0

\* The exception marker of a call that raised nothing.
NoExc == "none"

\* An instance attribute is <<v>> once assigned v, and empty before.
NoAttr == <<>>

\* Addresses of the chip's register file.
RegAddrs == 0..31

(***************************************************************************)
(* The I2C transport and the chip behind it.                               *)
(*                                                                         *)
(* A context ctx is the state of one call in progress: the chip registers, *)
(* the bus transactions issued so far, the pending exception, the value of *)
(* the last expression evaluated, the index of the bus transaction at      *)
(* which the transport fails (0: it never fails) and whether the build's   *)
(* int.to_bytes truncates instead of raising.                              *)
(***************************************************************************)

Start(r, failAt, truncates) ==
    [regs |-> r, bus |-> <<>>, exc |-> NoExc, val |-> 0,
     failAt |-> failAt, truncates |-> truncates]

Raise(ctx, e) == [ctx EXCEPT !.exc = e]

\* i2c.writeto_mem(addr, memaddr, buf): the chip decodes memaddr as a command
\* byte; a byte write with type bits 00 or 01 stores buf in the addressed
\* register, the special-function (11) and reserved (10) types store nothing.
writeto_mem(ctx, memaddr, byte) ==
    LET bus2 == Append(ctx.bus, <<"w", memaddr, byte>>)
        ctype == (memaddr \div 32) % 4
        addr == memaddr % 32
    IN  IF Len(bus2) = ctx.failAt
        THEN [ctx EXCEPT !.bus = bus2, !.exc = "OSError"]
        ELSE IF ctype \in {0, 1} /\ addr \in RegAddrs
        THEN [ctx EXCEPT !.bus = bus2, !.regs = [ctx.regs EXCEPT ![addr] = byte]]
        ELSE [ctx EXCEPT !.bus = bus2]

\* i2c.readfrom_mem(addr, memaddr, length): length consecutive registers
\* starting at memaddr, as a sequence of bytes.
readfrom_mem(ctx, memaddr, length) ==
    LET bus2 == Append(ctx.bus, <<"r", memaddr, length>>)
    IN  IF Len(bus2) = ctx.failAt
        THEN [ctx EXCEPT !.bus = bus2, !.exc = "OSError"]
        ELSE [ctx EXCEPT !.bus = bus2,
                         !.val = [i \in 1..length |-> ctx.regs[(memaddr + i - 1) % 32]]]

(***************************************************************************)
(* Communication: __sendCommand and __readRegister                         *)
(***************************************************************************)

\* `type == 0b10` on line 77 compares the builtin `type` (the parameter is
\* named commType) with an integer: it is false for every argument.
BuiltinTypeEquals(n) == FALSE

sendCommand(ctx, command, value, commType) ==
    IF ctx.exc # NoExc THEN ctx
    ELSE IF BuiltinTypeEquals(2) THEN Raise(ctx, "ValueError")
    ELSE IF command \notin DOMAIN REGISTERS THEN Raise(ctx, "ValueError")
    ELSE IF REGISTERS[command][2] = 2 THEN Raise(ctx, "ValueError")
    ELSE LET commandByte == 128 + commType * 32 + REGISTERS[command][1]
         IN  \* value.to_bytes(1, "big")
             IF value \in 0..255 THEN writeto_mem(ctx, commandByte, value)
             ELSE IF ctx.truncates THEN writeto_mem(ctx, commandByte, value % 256)
             ELSE Raise(ctx, "OverflowError")

RECURSIVE LittleEndian(_)
LittleEndian(data) ==
    IF data = <<>> THEN 0
    ELSE Head(data) + 256 * LittleEndian(Tail(data))

readRegister(ctx, register, length) ==
    IF ctx.exc # NoExc THEN ctx
    ELSE IF register \notin DOMAIN REGISTERS THEN Raise(ctx, "ValueError")
    ELSE IF REGISTERS[register][2] = 1 THEN Raise(ctx, "ValueError")
    ELSE LET c == readfrom_mem(ctx, REGISTERS[register][1], length)
         IN  IF c.exc # NoExc THEN c
             ELSE IF length = 1 THEN [c EXCEPT !.val = c.val[1]]
             ELSE [c EXCEPT !.val = LittleEndian(c.val)]

(***************************************************************************)
(* Enable / disable                                                        *)
(***************************************************************************)

enableComm(ctx, value) == sendCommand(ctx, "ENABLE", value, 1)

\* enable() with the power-on write left out: the ADC is enabled in one step.
enable_OneStep(ctx) == enableComm(ctx, ENABLE_PON + ENABLE_AEN)

\* ENABLE_PON | ENABLE_AEN: the two flags share no bit.
enable(ctx) == enableComm(enableComm(ctx, ENABLE_PON), ENABLE_PON + ENABLE_AEN)

disable(ctx) == enableComm(ctx, 0)

(***************************************************************************)
(* Python helpers                                                          *)
(***************************************************************************)

\* dict.get(key, default)
Get(table, key, default) == IF key \in DOMAIN table THEN table[key] ELSE default

\* bin(n) for n >= 0, as the sequence of its characters: "0", "b" and the
\* binary digits without leading zeros.
RECURSIVE BinDigits(_)
BinDigits(n) ==
    IF n < 2 THEN <<IF n = 1 THEN "1" ELSE "0">>
    ELSE Append(BinDigits(n \div 2), IF n % 2 = 1 THEN "1" ELSE "0")

bin(n) == <<"0", "b">> \o BinDigits(n)

\* s[-k] and s[-k:] of a string of at least k characters.
FromEnd(s, k) == s[Len(s) - k + 1]

Suffix(s, k) == SubSeq(s, Len(s) - k + 1, Len(s))

\* bool(c) of a string: true unless it is empty.
BoolOfStr(c) == c # ""

\* int(s, 2) of a string without base prefix: defined when every character
\* is a binary digit, a ValueError otherwise.
IsBinary(s) == \A i \in 1..Len(s) : s[i] \in {"0", "1"}

RECURSIVE IntBase2(_)
IntBase2(s) ==
    IF s = <<>> THEN 0
    ELSE 2 * IntBase2(SubSeq(s, 1, Len(s) - 1)) + (IF s[Len(s)] = "1" THEN 1 ELSE 0)

(***************************************************************************)
(* Timing (ATIME)                                                          *)
(***************************************************************************)

timing_ms_get(ctx) ==
    LET c == readRegister(ctx, "ATIME", 1)
    IN  IF c.exc # NoExc THEN c
        ELSE [c EXCEPT !.val =
                Get((255 :> 24) @@ (246 :> 240) @@ (213 :> 1010) @@ (192 :> 1540) @@ (0 :> 7000),
                    c.val, 24)]

timing_ms_set(ctx, timing) ==
    IF timing \notin {24, 240, 500, 1010, 1540, 7000} THEN Raise(ctx, "ValueError")
    ELSE LET timingValue ==
                Get((24 :> 255) @@ (240 :> 246) @@ (1010 :> 213) @@ (1540 :> 192) @@ (7000 :> 0),
                    timing, 1)
         IN  sendCommand(ctx, "ATIME", timingValue, 1)

\* The getter looks the raw byte up in the cycles table and then returns a
\* second read of the register instead of the table's entry.
timing_cycles_get(ctx) ==
    LET c == readRegister(ctx, "ATIME", 1)
    IN  readRegister(c, "ATIME", 1)

\* The setter computes timingValue and sends its argument instead.
timing_cycles_set(ctx, timing) ==
    IF timing \notin {1, 10, 42, 64, 256} THEN Raise(ctx, "ValueError")
    ELSE sendCommand(ctx, "ATIME", timing, 1)

(***************************************************************************)
(* Configuration (WLONG)                                                   *)
(***************************************************************************)

WLONG_get(ctx) ==
    LET c == readRegister(ctx, "CONFIG", 1)
    IN  IF c.exc # NoExc THEN c
        ELSE [c EXCEPT !.val = BoolOfStr(FromEnd(bin(c.val), 2))]

\* value is a Python value [type, v]; a bool shifts as the integer 0 or 1.
WLONG_set(ctx, value) ==
    IF ctx.exc # NoExc THEN ctx
    ELSE IF value.type # "bool" THEN Raise(ctx, "ValueError")
    ELSE sendCommand(ctx, "CONFIG", value.v * 2, 1)

PyFalse == [type |-> "bool", v |-> 0]

PyTrue == [type |-> "bool", v |-> 1]

(***************************************************************************)
(* Wait timing (WTIME)                                                     *)
(***************************************************************************)

wait_time_value_get(ctx) ==
    LET c == readRegister(ctx, "WTIME", 1)
    IN  IF c.exc # NoExc THEN c
        ELSE [c EXCEPT !.val = Get((255 :> 1) @@ (171 :> 85) @@ (0 :> 256), c.val, 1)]

wait_time_value_set(ctx, timing) ==
    IF timing \notin {1, 85, 256} THEN Raise(ctx, "ValueError")
    ELSE sendCommand(ctx, "WTIME", Get((1 :> 255) @@ (85 :> 171) @@ (256 :> 0), timing, 1), 1)

wait_time_ms_get(ctx) ==
    LET c == readRegister(ctx, "WTIME", 1)
        w == WLONG_get(c)
    IN  IF w.exc # NoExc THEN w
        ELSE IF w.val
        THEN [w EXCEPT !.val = Get((255 :> 24) @@ (171 :> 2040) @@ (0 :> 6140), c.val, 24)]
        ELSE [w EXCEPT !.val = Get((255 :> 290) @@ (171 :> 24500) @@ (0 :> 74000), c.val, 10)]

wait_time_ms_set(ctx, timing) ==
    IF timing \notin {24, 2040, 6140} /\ timing \notin {290, 24500, 74000}
    THEN Raise(ctx, "ValueError")
    ELSE IF timing \in {24, 2040, 6140}
    THEN LET timingValue == IF timing = 24 THEN 255 ELSE IF timing = 2040 THEN 171 ELSE 0
         IN  sendCommand(WLONG_set(ctx, PyFalse), "WTIME", timingValue, 1)
    ELSE LET timingValue == IF timing = 290 THEN 255 ELSE IF timing = 24500 THEN 171 ELSE 0
         IN  sendCommand(WLONG_set(ctx, PyTrue), "WTIME", timingValue, 1)

(***************************************************************************)
(* Interrupt thresholds                                                    *)
(***************************************************************************)

minThreshold_get(ctx) ==
    LET lo == readRegister(ctx, "AILT", 1)
        hi == readRegister(lo, "AILTH", 1)
    IN  IF hi.exc # NoExc THEN hi ELSE [hi EXCEPT !.val = lo.val + hi.val * 256]

minThreshold_set(ctx, threshold) ==
    IF threshold > 65535 \/ threshold < 0 THEN Raise(ctx, "ValueError")
    ELSE sendCommand(sendCommand(ctx, "AILT", threshold % 256, 1),
                     "AILTH", (threshold \div 256) % 256, 1)

maxThreshold_get(ctx) ==
    LET lo == readRegister(ctx, "AIHT", 1)
        hi == readRegister(lo, "AIHTH", 1)
    IN  IF hi.exc # NoExc THEN hi ELSE [hi EXCEPT !.val = lo.val + hi.val * 256]

maxThreshold_set(ctx, threshold) ==
    IF threshold > 65535 \/ threshold < 0 THEN Raise(ctx, "ValueError")
    ELSE sendCommand(sendCommand(ctx, "AIHT", threshold % 256, 1),
                     "AIHTH", (threshold \div 256) % 256, 1)

(***************************************************************************)
(* Persistence filter                                                      *)
(***************************************************************************)

persistance_get(ctx) == readRegister(ctx, "PERS", 1)

persistance_set(ctx, persistance) ==
    IF persistance \notin {1, 2, 3} /\ persistance \notin { 5 * k : k \in 1..12 }
    THEN Raise(ctx, "ValueError")
    ELSE sendCommand(ctx, "PERS", persistance, 1)

(***************************************************************************)
(* Control (gain)                                                          *)
(***************************************************************************)

gain_get(ctx) ==
    LET c == readRegister(ctx, "CONTROL", 1)
    IN  IF c.exc # NoExc THEN c
        ELSE LET bits == Suffix(bin(c.val), 2)
             IN  IF ~IsBinary(bits) THEN Raise(c, "ValueError")
                 ELSE [c EXCEPT !.val =
                         Get((0 :> 1) @@ (1 :> 4) @@ (2 :> 16) @@ (3 :> 60), IntBase2(bits), 1)]

gain_set(ctx, value) ==
    IF value \notin {1, 4, 16, 60} THEN Raise(ctx, "ValueError")
    ELSE sendCommand(ctx, "CONTROL",
                     Get((1 :> 0) @@ (4 :> 1) @@ (16 :> 2) @@ (60 :> 3), value, 0), 1)

(***************************************************************************)
(* Sensor id and status                                                    *)
(***************************************************************************)

sensorId_get(ctx) == readRegister(ctx, "ID", 1)

sensorId_set(ctx, value) == Raise(ctx, "ValueError")

status_set(ctx, value) == Raise(ctx, "ValueError")

(***************************************************************************)
(* Colour reading                                                          *)
(***************************************************************************)

\* The tuple's four reads are evaluated left to right; the first one that
\* raises ends the call.
getColor(ctx) ==
    LET c == readRegister(ctx, "CDATA", 2)
        r == readRegister(c, "RDATA", 2)
        g == readRegister(r, "GDATA", 2)
        b == readRegister(g, "BDATA", 2)
    IN  IF b.exc # NoExc THEN b
        ELSE [b EXCEPT !.val = <<c.val, r.val, g.val, b.val>>]

getRGB(ctx) ==
    LET c == getColor(ctx)
    IN  IF c.exc # NoExc THEN c ELSE [c EXCEPT !.val = Tail(c.val)]

(***************************************************************************)
(* Colour temperature and lux (DN40)                                       *)
(***************************************************************************)

\* int(x) of the quotient a / b: truncation toward zero.
TruncDiv(a, b) ==
    LET q == (IF a < 0 THEN -a ELSE a) \div (IF b < 0 THEN -b ELSE b)
    IN  IF (a < 0) = (b < 0) THEN q ELSE -q

\* SATURATION for an integration time in tenths of a millisecond, in
\* fortieths of a count (every value the code computes is a whole number of
\* fortieths): the digital or analog ceiling, less a quarter below 150 ms.
Saturation40(ATIME_MS) ==
    LET SATURATION == IF (2560 - ATIME_MS) > 630 THEN 65535 * 40
                      ELSE 1024 * (2560 - ATIME_MS) * 4
    IN  IF ATIME_MS < 1500 THEN SATURATION - SATURATION \div 4 ELSE SATURATION

\* The computation that follows the three reads: sample is getColor's
\* tuple, unpacked as r, g, b, c from (clear, red, green, blue); ATIME_MS is
\* timing_ms and GA self._glassAttenuation, both in tenths; AGAIN is gain.
\* Lux and colour temperature are computed in exact arithmetic (the rounding
\* of the floats is left out) and truncated toward zero.
DN40(ctx, sample, ATIME_MS, AGAIN, GA) ==
    LET r == sample[1]
        g == sample[2]
        b == sample[3]
        c == sample[4]
        ir2 == r + g + b - c
        r1x2 == 2 * r - ir2
        g1x2 == 2 * g - ir2
        b1x2 == 2 * b - ir2
        g2x2000 == 136 * r1x2 + 1000 * g1x2 - 444 * b1x2
        lux == TruncDiv(g2x2000 * GA * 310, 2000 * ATIME_MS * AGAIN)
    IN  IF c * 40 > Saturation40(ATIME_MS) THEN [ctx EXCEPT !.val = <<-1, -1>>]
        ELSE IF r1x2 = 0 THEN Raise(ctx, "ZeroDivisionError")
        ELSE [ctx EXCEPT !.val = <<lux, TruncDiv(3810 * b1x2 + 1391 * r1x2, r1x2)>>]

(***************************************************************************)
(* Glass attenuation                                                       *)
(***************************************************************************)

\* The getter reads self._glass_attenuation, which __init__ never assigns.
glass_attenuation_get(ctx, attr) ==
    IF attr = NoAttr THEN Raise(ctx, "AttributeError") ELSE [ctx EXCEPT !.val = attr[1]]

glass_attenuation_set(ctx, value) ==
    IF value < 10 THEN Raise(ctx, "ValueError") ELSE ctx

(***************************************************************************)
(* Calls                                                                   *)
(***************************************************************************)

\* The bus transaction at which the transport may fail: none, the first or
\* the second of a call.
MaxFailAt == 2

FailPoints == 0..MaxFailAt

\* The number of calls followed on the driver after its construction.
MaxCalls == 2

\* The end of a call: the chip keeps what the call wrote, and the call's
\* outcome (exception, return value, bus transactions) is recorded.
Return(op, arg, ctx, ret) ==
    /\ ncalls < MaxCalls
    /\ ncalls' = ncalls + 1
    /\ regs' = ctx.regs
    /\ call' = [op |-> op, arg |-> arg, exc |-> ctx.exc,
                ret |-> IF ctx.exc = NoExc THEN ret ELSE <<>>,
                bus |-> ctx.bus]

Enable ==
    \E f \in FailPoints :
        /\ Return("enable", <<>>, enable(Start(regs, f, FALSE)), <<>>)
        /\ UNCHANGED <<glassAttenuation, glass_attenuation>>

Disable ==
    \E f \in FailPoints :
        /\ Return("disable", <<>>, disable(Start(regs, f, FALSE)), <<>>)
        /\ UNCHANGED <<glassAttenuation, glass_attenuation>>

\* Arguments of the calls.
TimingMsArgs == {24, 240, 500, 1010, 1540, 7000, 30}

TimingCyclesArgs == {1, 10, 42, 64, 256, 2}

WaitValueArgs == {1, 85, 256, 2}

WaitMsArgs == {24, 2040, 6140, 290, 24500, 74000, 50}

GainArgs == {1, 4, 16, 60, 2}

ThresholdArgs == {-1, 0, 255, 4660, 65535, 65536}

PersistanceArgs == {0, 1, 2, 3, 4, 5, 60, 65}

WLONGArgs == {PyFalse, PyTrue, [type |-> "int", v |-> 1]}

GlassAttenuationArgs == {5, 10, 20}

\* A call that only reads: it returns the context's value.
Getter(op, ctx) ==
    /\ Return(op, <<>>, ctx, <<ctx.val>>)
    /\ UNCHANGED <<glassAttenuation, glass_attenuation>>

\* A call with one argument that returns nothing.
Setter(op, value, ctx) ==
    /\ Return(op, <<value>>, ctx, <<>>)
    /\ UNCHANGED <<glassAttenuation, glass_attenuation>>

GetTimingMs == \E f \in FailPoints : Getter("timing_ms", timing_ms_get(Start(regs, f, FALSE)))

SetTimingMs ==
    \E f \in FailPoints, timing \in TimingMsArgs :
        Setter("timing_ms=", timing, timing_ms_set(Start(regs, f, FALSE), timing))

GetTimingCycles ==
    \E f \in FailPoints : Getter("timing_cycles", timing_cycles_get(Start(regs, f, FALSE)))

SetTimingCycles ==
    \E f \in FailPoints, timing \in TimingCyclesArgs, truncates \in BOOLEAN :
        Setter("timing_cycles=", timing, timing_cycles_set(Start(regs, f, truncates), timing))

GetWaitTimeValue ==
    \E f \in FailPoints : Getter("wait_time_value", wait_time_value_get(Start(regs, f, FALSE)))

SetWaitTimeValue ==
    \E f \in FailPoints, timing \in WaitValueArgs :
        Setter("wait_time_value=", timing, wait_time_value_set(Start(regs, f, FALSE), timing))

GetWaitTimeMs ==
    \E f \in FailPoints : Getter("wait_time_ms", wait_time_ms_get(Start(regs, f, FALSE)))

SetWaitTimeMs ==
    \E f \in FailPoints, timing \in WaitMsArgs :
        Setter("wait_time_ms=", timing, wait_time_ms_set(Start(regs, f, FALSE), timing))

GetMinThreshold ==
    \E f \in FailPoints : Getter("minThreshold", minThreshold_get(Start(regs, f, FALSE)))

SetMinThreshold ==
    \E f \in FailPoints, threshold \in ThresholdArgs :
        Setter("minThreshold=", threshold, minThreshold_set(Start(regs, f, FALSE), threshold))

GetMaxThreshold ==
    \E f \in FailPoints : Getter("maxThreshold", maxThreshold_get(Start(regs, f, FALSE)))

SetMaxThreshold ==
    \E f \in FailPoints, threshold \in ThresholdArgs :
        Setter("maxThreshold=", threshold, maxThreshold_set(Start(regs, f, FALSE), threshold))

GetPersistance ==
    \E f \in FailPoints : Getter("persistance", persistance_get(Start(regs, f, FALSE)))

SetPersistance ==
    \E f \in FailPoints, persistance \in PersistanceArgs :
        Setter("persistance=", persistance, persistance_set(Start(regs, f, FALSE), persistance))

GetWLONG == \E f \in FailPoints : Getter("WLONG", WLONG_get(Start(regs, f, FALSE)))

SetWLONG ==
    \E f \in FailPoints, value \in WLONGArgs :
        Setter("WLONG=", value, WLONG_set(Start(regs, f, FALSE), value))

GetGain == \E f \in FailPoints : Getter("gain", gain_get(Start(regs, f, FALSE)))

SetGain ==
    \E f \in FailPoints, value \in GainArgs :
        Setter("gain=", value, gain_set(Start(regs, f, FALSE), value))

GetSensorId == \E f \in FailPoints : Getter("sensorId", sensorId_get(Start(regs, f, FALSE)))

SetSensorId ==
    \E value \in {0, 68} :
        Setter("sensorId=", value, sensorId_set(Start(regs, 0, FALSE), value))

SetStatus ==
    \E value \in {0, 17} :
        Setter("status=", value, status_set(Start(regs, 0, FALSE), value))

GetColor ==
    \E f \in FailPoints :
        LET ctx == getColor(Start(regs, f, FALSE))
        IN  /\ Return("getColor", <<>>, ctx, ctx.val)
            /\ UNCHANGED <<glassAttenuation, glass_attenuation>>

GetRGB ==
    \E f \in FailPoints :
        LET ctx == getRGB(Start(regs, f, FALSE))
        IN  /\ Return("getRGB", <<>>, ctx, ctx.val)
            /\ UNCHANGED <<glassAttenuation, glass_attenuation>>

\* colorTemperatureLux: getColor, timing_ms and gain are read in turn, and
\* the first that raises ends the call.
ColorTemperatureLux ==
    \E f \in FailPoints :
        \E s \in {getColor(Start(regs, f, FALSE))} :
        \E t \in {timing_ms_get(s)} :
        \E a \in {gain_get(t)} :
        \E d \in {IF a.exc # NoExc THEN a
                  ELSE DN40(a, s.val, t.val, a.val, glassAttenuation)} :
            /\ Return("colorTemperatureLux", <<>>, d, d.val)
            /\ UNCHANGED <<glassAttenuation, glass_attenuation>>

GetGlassAttenuation ==
    LET ctx == glass_attenuation_get(Start(regs, 0, FALSE), glass_attenuation)
    IN  /\ Return("glass_attenuation", <<>>, ctx, <<ctx.val>>)
        /\ UNCHANGED <<glassAttenuation, glass_attenuation>>

SetGlassAttenuation ==
    \E value \in GlassAttenuationArgs :
        LET ctx == glass_attenuation_set(Start(regs, 0, FALSE), value)
        IN  /\ Return("glass_attenuation=", <<value>>, ctx, <<>>)
            /\ glass_attenuation' = IF ctx.exc = NoExc THEN <<value>> ELSE glass_attenuation
            /\ UNCHANGED glassAttenuation

(***************************************************************************)
(* Direct calls of the codec                                               *)
(***************************************************************************)

CodecNames == DOMAIN REGISTERS \cup {"AILT", "CDATA", "FOO"}

CodecValues == {165, 256}

CommTypes == 0..3

SendCommandCall ==
    \E f \in FailPoints, command \in CodecNames, value \in CodecValues,
       commType \in CommTypes, truncates \in BOOLEAN :
        /\ Return("__sendCommand", <<command, value, commType>>,
                  sendCommand(Start(regs, f, truncates), command, value, commType), <<>>)
        /\ UNCHANGED <<glassAttenuation, glass_attenuation>>

ReadRegisterCall ==
    \E f \in FailPoints, register \in CodecNames, length \in {1, 2} :
        LET ctx == readRegister(Start(regs, f, FALSE), register, length)
        IN  /\ Return("__readRegister", <<register, length>>, ctx, <<ctx.val>>)
            /\ UNCHANGED <<glassAttenuation, glass_attenuation>>

(***************************************************************************)
(* Construction                                                            *)
(***************************************************************************)

\* Raw samples (clear, red, green, blue) the chip may hold in its data
\* registers.
Samples == { <<0, 0, 0, 0>>, <<65535, 300, 200, 100>>, <<1000, 513, 258, 4>> }

\* The chip after power-on, holding sample s: ATIME and WTIME at 0xFF, the
\* part number 0x44 in ID, AINT and AVALID set in STATUS, 0x00 elsewhere.
ChipReset(s) ==
    [a \in RegAddrs |->
        CASE a = 1  -> RESET_ATIME
          [] a = 3  -> RESET_WTIME
          [] a = 18 -> 68
          [] a = 19 -> 17
          [] a \in 20..27 ->
                LET v == s[((a - 20) \div 2) + 1]
                IN  IF a % 2 = 0 THEN v % 256 ELSE v \div 256
          [] OTHER  -> RESET_VALUE]

\* __init__: stores the glass attenuation and enables the sensor.
Init ==
    \E s \in Samples :
        LET ctx == enable(Start(ChipReset(s), 0, FALSE))
        IN  /\ regs = ctx.regs
            /\ glassAttenuation = 10
            /\ glass_attenuation = NoAttr
            /\ ncalls = 0
            /\ call = [op |-> "__init__", arg |-> <<>>, exc |-> ctx.exc,
                       ret |-> <<>>, bus |-> ctx.bus]

\* The driver's public operations.
Next ==
    \/ Enable
    \/ Disable
    \/ GetTimingMs
    \/ SetTimingMs
    \/ GetTimingCycles
    \/ SetTimingCycles
    \/ GetWaitTimeValue
    \/ SetWaitTimeValue
    \/ GetWaitTimeMs
    \/ SetWaitTimeMs
    \/ GetMinThreshold
    \/ SetMinThreshold
    \/ GetMaxThreshold
    \/ SetMaxThreshold
    \/ GetPersistance
    \/ SetPersistance
    \/ GetWLONG
    \/ SetWLONG
    \/ GetGain
    \/ SetGain
    \/ GetSensorId
    \/ SetSensorId
    \/ SetStatus
    \/ GetColor
    \/ GetRGB
    \/ ColorTemperatureLux
    \/ GetGlassAttenuation
    \/ SetGlassAttenuation

Spec == Init /\ [][Next]_vars

\* The codec called on its own, with every register name and command type.
NextCodec ==
    \/ SendCommandCall
    \/ ReadRegisterCall
    \/ SetSensorId
    \/ SetStatus

SpecCodec == Init /\ [][NextCodec]_vars

(***************************************************************************)
(* Properties                                                              *)
(***************************************************************************)

\* Vocabulary of the properties: the outcome of a call, and the bus
\* transactions the register map of the data sheet prescribes (a write goes
\* to the command byte 0x80 | 0b01 << 5 | address, a read to the address).
Succeeded(c) == c.exc = NoExc

TransportFailed(c) == c.exc = "OSError"

BusWrites(c) == SelectSeq(c.bus, LAMBDA t : t[1] = "w")

WriteTo(addr, byte) == <<"w", 128 + 32 + addr, byte>>

ReadFrom(addr, length) == <<"r", addr, length>>

ReadOnlyRegisters ==
    {"ID", "STATUS", "CDATAL", "CDATAH", "RDATAL", "RDATAH",
     "GDATAL", "GDATAH", "BDATAL", "BDATAH"}

LegalMs == {24, 240, 1010, 1540, 7000}

LegalCycles == {1, 10, 42, 64, 256}

MsOfCycles == (1 :> 24) @@ (10 :> 240) @@ (42 :> 1010) @@ (64 :> 1540) @@ (256 :> 7000)

CyclesOfMs == (24 :> 1) @@ (240 :> 10) @@ (1010 :> 42) @@ (1540 :> 64) @@ (7000 :> 256)

ByteOfMs == (24 :> 255) @@ (240 :> 246) @@ (1010 :> 213) @@ (1540 :> 192) @@ (7000 :> 0)

ByteOfCycles == (1 :> 255) @@ (10 :> 246) @@ (42 :> 213) @@ (64 :> 192) @@ (256 :> 0)

LegalGain == {1, 4, 16, 60}

CodeOfGain == (1 :> 0) @@ (4 :> 1) @@ (16 :> 2) @@ (60 :> 3)

ShortWaitMs == {24, 2040, 6140}

LongWaitMs == {290, 24500, 74000}

ByteOfWaitMs ==
    (24 :> 255) @@ (2040 :> 171) @@ (6140 :> 0) @@
    (290 :> 255) @@ (24500 :> 171) @@ (74000 :> 0)

ByteOfWaitValue == (1 :> 255) @@ (85 :> 171) @@ (256 :> 0)

LegalPersistance == {1, 2, 3} \cup { 5 * k : k \in 1..12 }

\* C1: the write codec never lets an illegal request reach the bus: a call
\* of __sendCommand whose register name is not in the register map, or names
\* a read-only register, or whose command type is the reserved 0b10, fails
\* with an error and issues no bus write; so does every call of the sensorId
\* and status setters.
C1_IllegalRequestNeverReachesBus ==
    /\ ( /\ call.op = "__sendCommand"
         /\ \/ call.arg[1] \notin DOMAIN REGISTERS
            \/ call.arg[1] \in ReadOnlyRegisters
            \/ call.arg[3] = 2 )
       => (~Succeeded(call) /\ BusWrites(call) = <<>>)
    /\ call.op \in {"sensorId=", "status="}
       => (~Succeeded(call) /\ BusWrites(call) = <<>>)

\* C2: integration time round-trips in both representations: after a legal
\* timing_ms (or timing_cycles) was set, a following read of the same
\* property returns the value set, and a following read of the other
\* property returns the paired value (1<->2.4, 10<->24, 42<->101, 64<->154,
\* 256<->700), transport failures aside.
C2_IntegrationTimeRoundTrips ==
    [][ /\ ( /\ call.op = "timing_ms=" /\ call.arg[1] \in LegalMs /\ Succeeded(call)
             /\ call'.op = "timing_ms" /\ ~TransportFailed(call') )
           => (Succeeded(call') /\ call'.ret = <<call.arg[1]>>)
        /\ ( /\ call.op = "timing_cycles=" /\ call.arg[1] \in LegalCycles /\ Succeeded(call)
             /\ call'.op = "timing_cycles" /\ ~TransportFailed(call') )
           => (Succeeded(call') /\ call'.ret = <<call.arg[1]>>)
        /\ ( /\ call.op = "timing_cycles=" /\ call.arg[1] \in LegalCycles /\ Succeeded(call)
             /\ call'.op = "timing_ms" /\ ~TransportFailed(call') )
           => (Succeeded(call') /\ call'.ret = <<MsOfCycles[call.arg[1]]>>)
        /\ ( /\ call.op = "timing_ms=" /\ call.arg[1] \in LegalMs /\ Succeeded(call)
             /\ call'.op = "timing_cycles" /\ ~TransportFailed(call') )
           => (Succeeded(call') /\ call'.ret = <<CyclesOfMs[call.arg[1]]>>)
      ]_vars

\* C3: gain round-trips and is validated: setting gain to g in {1, 4, 16, 60}
\* writes g's 2-bit code to CONTROL and a following read of gain returns g;
\* setting any other value fails with an error and issues no bus write.
C3_GainRoundTrips ==
    [][ /\ ( /\ call'.op = "gain=" /\ call'.arg[1] \in LegalGain
             /\ ~TransportFailed(call') )
           => /\ Succeeded(call')
              /\ call'.bus = <<WriteTo(15, CodeOfGain[call'.arg[1]])>>
              /\ regs'[15] = CodeOfGain[call'.arg[1]]
        /\ (call'.op = "gain=" /\ call'.arg[1] \notin LegalGain)
           => (call'.exc = "ValueError" /\ call'.bus = <<>>)
        /\ ( /\ call.op = "gain=" /\ call.arg[1] \in LegalGain /\ Succeeded(call)
             /\ call'.op = "gain" /\ ~TransportFailed(call') )
           => (Succeeded(call') /\ call'.ret = <<call.arg[1]>>)
      ]_vars

\* C4: interrupt thresholds round-trip: setting minThreshold (maxThreshold)
\* to t in 0..65535 succeeds by writing the low byte and then the high byte
\* to the low and high threshold registers 0x04, 0x05 (0x06, 0x07), and a
\* following read returns t; t = 65536 or t < 0 fails with an error before
\* any bus write.
C4_ThresholdsRoundTrip ==
    [][ /\ ( /\ call'.op = "minThreshold=" /\ call'.arg[1] \in 0..65535
             /\ ~TransportFailed(call') )
           => /\ Succeeded(call')
              /\ call'.bus = <<WriteTo(4, call'.arg[1] % 256), WriteTo(5, call'.arg[1] \div 256)>>
        /\ ( /\ call'.op = "maxThreshold=" /\ call'.arg[1] \in 0..65535
             /\ ~TransportFailed(call') )
           => /\ Succeeded(call')
              /\ call'.bus = <<WriteTo(6, call'.arg[1] % 256), WriteTo(7, call'.arg[1] \div 256)>>
        /\ ( /\ call'.op \in {"minThreshold=", "maxThreshold="}
             /\ call'.arg[1] \notin 0..65535 )
           => (call'.exc = "ValueError" /\ call'.bus = <<>>)
        /\ ( /\ call.op = "minThreshold=" /\ call.arg[1] \in 0..65535 /\ Succeeded(call)
             /\ call'.op = "minThreshold" /\ ~TransportFailed(call') )
           => (Succeeded(call') /\ call'.ret = <<call.arg[1]>>)
        /\ ( /\ call.op = "maxThreshold=" /\ call.arg[1] \in 0..65535 /\ Succeeded(call)
             /\ call'.op = "maxThreshold" /\ ~TransportFailed(call') )
           => (Succeeded(call') /\ call'.ret = <<call.arg[1]>>)
      ]_vars

\* The 16-bit count the chip holds in the register pair at addr, addr + 1.
Count16(addr) == regs[addr] + 256 * regs[addr + 1]

\* C5: getColor() succeeds for every content of the data registers: it
\* performs exactly four 2-byte reads, of clear (0x14), red (0x16), green
\* (0x18) and blue (0x1A) in this order, and returns (clear, red, green,
\* blue), each lowByte + 256 * highByte of its pair; getRGB() returns the
\* same sample without the clear channel.
C5_GetColorReadsFourChannels ==
    /\ (call.op \in {"getColor", "getRGB"} /\ ~TransportFailed(call))
       => /\ Succeeded(call)
          /\ call.bus = <<ReadFrom(20, 2), ReadFrom(22, 2), ReadFrom(24, 2), ReadFrom(26, 2)>>
    /\ (call.op = "getColor" /\ ~TransportFailed(call))
       => call.ret = <<Count16(20), Count16(22), Count16(24), Count16(26)>>
    /\ (call.op = "getRGB" /\ ~TransportFailed(call))
       => call.ret = <<Count16(22), Count16(24), Count16(26)>>

\* The saturation ceiling of C6 in quarters of a count, for an integration
\* time in tenths of a millisecond: 65535 at 700 ms and wherever
\* 256 - ms > 63, less a quarter below 150 ms.
ClaimedCeiling4(ms) ==
    LET ceiling4 == IF ms = 7000 \/ (2560 - ms) > 630 THEN 65535 * 4
                    ELSE (4096 * (2560 - ms)) \div 10
    IN  IF ms < 1500 THEN ceiling4 - ceiling4 \div 4 ELSE ceiling4

\* The integration time the ATIME byte stands for, in tenths of a ms.
MsOfByte == (255 :> 24) @@ (246 :> 240) @@ (213 :> 1010) @@ (192 :> 1540) @@ (0 :> 7000)

\* C6: with a legal integration time configured, colorTemperatureLux reports
\* the saturated marker (-1, -1) exactly when the clear count is strictly
\* greater than the saturation ceiling; at 700 ms the ceiling is 65535, so a
\* clear count of 65535 is not reported as saturated.
C6_SaturatedExactlyAboveCeiling ==
    ( /\ call.op = "colorTemperatureLux" /\ ~TransportFailed(call)
      /\ regs[1] \in DOMAIN MsOfByte )
    => /\ (Succeeded(call) /\ call.ret = <<-1, -1>>)
          <=> (Count16(20) * 4 > ClaimedCeiling4(MsOfByte[regs[1]]))
       /\ (regs[1] = 0 /\ Count16(20) = 65535)
          => ~(Succeeded(call) /\ call.ret = <<-1, -1>>)

\* C7: enable sequencing.  Every enable(), the constructor's included,
\* writes ENABLE with PON alone (0x01) and only then with PON|AEN (0x03):
\* its bus transactions are a prefix of these two writes, both when no
\* transport failure ends it, and the sensor is left PoweredOn (0x01) when
\* the second write fails.  disable() issues the single write 0x00.  After a
\* call without transport failure ENABLE holds 0x03 if the call was enable()
\* and 0x00 if it was disable(), whatever it held before.
C7_EnableSequencing ==
    /\ call.op \in {"enable", "__init__"}
       => /\ call.bus \in { <<WriteTo(0, 1)>>, <<WriteTo(0, 1), WriteTo(0, 3)>> }
          /\ Succeeded(call)
             => (call.bus = <<WriteTo(0, 1), WriteTo(0, 3)>> /\ regs[0] = 3)
          /\ (TransportFailed(call) /\ Len(call.bus) = 2) => regs[0] = 1
          /\ Succeeded(call) \/ TransportFailed(call)
    /\ call.op = "disable"
       => /\ call.bus = <<WriteTo(0, 0)>>
          /\ Succeeded(call) => regs[0] = 0
          /\ Succeeded(call) \/ TransportFailed(call)

\* C7's case: an enable() that follows the constructor and another call has
\* issued both writes and left the sensor Enabled.
C7_Witness ==
    /\ call.op = "enable" /\ ncalls = 2 /\ Succeeded(call)
    /\ call.bus = <<WriteTo(0, 1), WriteTo(0, 3)>>
    /\ regs[0] = 3

\* C8: wait time and WLONG stay coupled and read back consistently: after
\* wait_time_ms is set to a legal v, bit 1 of CONFIG is 1 iff v is in the
\* wlong=true table {29, 2450, 7400}, WTIME holds the table byte of v, a
\* following WLONG read returns true iff v is in that table, and a following
\* wait_time_ms read returns v.
C8_WaitTimeAndWLONGCoupled ==
    [][ /\ ( /\ call'.op = "wait_time_ms=" /\ call'.arg[1] \in ShortWaitMs \cup LongWaitMs
             /\ ~TransportFailed(call') )
           => /\ Succeeded(call')
              /\ ((regs'[13] \div 2) % 2 = 1) <=> (call'.arg[1] \in LongWaitMs)
              /\ regs'[3] = ByteOfWaitMs[call'.arg[1]]
        /\ ( /\ call.op = "wait_time_ms=" /\ Succeeded(call)
             /\ call'.op = "WLONG" /\ ~TransportFailed(call') )
           => (Succeeded(call') /\ call'.ret = <<call.arg[1] \in LongWaitMs>>)
        /\ ( /\ call.op = "wait_time_ms=" /\ Succeeded(call)
             /\ call'.op = "wait_time_ms" /\ ~TransportFailed(call') )
           => (Succeeded(call') /\ call'.ret = <<call.arg[1]>>)
      ]_vars

\* C9: glass attenuation is validated and takes effect: setting a value
\* below 1.0 fails with an error and leaves the stored value unchanged;
\* setting v >= 1.0 succeeds, after which the getter returns v and
\* colorTemperatureLux uses v as its GA factor; before any set, the getter
\* returns 1.0 and the lux computation uses 1.0.
C9_GlassAttenuationTakesEffect ==
    [][ /\ (call'.op = "glass_attenuation=" /\ call'.arg[1] < 10)
           => /\ call'.exc = "ValueError"
              /\ glass_attenuation' = glass_attenuation
              /\ glassAttenuation' = glassAttenuation
        /\ (call'.op = "glass_attenuation=" /\ call'.arg[1] >= 10)
           => (Succeeded(call') /\ glassAttenuation' = call'.arg[1])
        /\ ( /\ call.op = "glass_attenuation=" /\ Succeeded(call)
             /\ call'.op = "glass_attenuation" )
           => (Succeeded(call') /\ call'.ret = <<call.arg[1]>>)
        /\ (ncalls = 0 /\ call'.op = "glass_attenuation")
           => (Succeeded(call') /\ call'.ret = <<10>>)
        /\ ncalls = 0 => glassAttenuation = 10
      ]_vars

\* The bytes a call wrote to the register at addr.
BytesWritten(c, addr) ==
    { c.bus[i][3] : i \in { j \in 1..Len(c.bus) : c.bus[j] = WriteTo(addr, c.bus[j][3]) } }

\* C10: enumerated configuration fields only ever receive legal codes: each
\* enumerated setter either raises without writing, or was given a legal
\* value and writes exactly the byte the table assigns to it; so ATIME is
\* only ever written with 0xFF, 0xF6, 0xD5, 0xC0 or 0x00, WTIME with 0xFF,
\* 0xAB or 0x00, CONTROL with 0..3 and PERS with 1, 2, 3, 5, 10, ..., 60.
C10_OnlyLegalCodesWritten ==
    /\ BytesWritten(call, 1) \subseteq {255, 246, 213, 192, 0}
    /\ BytesWritten(call, 3) \subseteq {255, 171, 0}
    /\ BytesWritten(call, 15) \subseteq 0..3
    /\ BytesWritten(call, 12) \subseteq LegalPersistance
    /\ (call.op = "timing_ms=" /\ BusWrites(call) # <<>>)
       => (call.arg[1] \in LegalMs /\ BytesWritten(call, 1) = {ByteOfMs[call.arg[1]]})
    /\ (call.op = "timing_cycles=" /\ BusWrites(call) # <<>>)
       => (call.arg[1] \in LegalCycles /\ BytesWritten(call, 1) = {ByteOfCycles[call.arg[1]]})
    /\ (call.op = "wait_time_ms=" /\ BytesWritten(call, 3) # {})
       => ( /\ call.arg[1] \in ShortWaitMs \cup LongWaitMs
            /\ BytesWritten(call, 3) = {ByteOfWaitMs[call.arg[1]]} )
    /\ (call.op = "wait_time_value=" /\ BusWrites(call) # <<>>)
       => ( /\ call.arg[1] \in DOMAIN ByteOfWaitValue
            /\ BytesWritten(call, 3) = {ByteOfWaitValue[call.arg[1]]} )
    /\ (call.op = "gain=" /\ BusWrites(call) # <<>>)
       => (call.arg[1] \in LegalGain /\ BytesWritten(call, 15) = {CodeOfGain[call.arg[1]]})
    /\ (call.op = "persistance=" /\ BusWrites(call) # <<>>)
       => (call.arg[1] \in LegalPersistance /\ BytesWritten(call, 12) = {call.arg[1]})

\* Addresses of the chip-side configuration registers: ENABLE, ATIME, WTIME,
\* the four threshold bytes, PERS, CONFIG and CONTROL.
ConfigRegisters == {0, 1, 3, 4, 5, 6, 7, 12, 13, 15}

\* C11: a failed operation leaves the configuration unchanged: whenever a
\* call on the driver ends in an error, a validation error or a transport
\* failure of any one of its bus writes, every configuration register holds
\* the value it had before the call began; an operation made of two writes
\* whose second write fails does not leave the first write's change behind.
C11_FailedOperationLeavesConfiguration ==
    [][ ~Succeeded(call')
        => \A a \in ConfigRegisters : regs'[a] = regs[a] ]_vars

====
